---- MODULE Spec2Model ----
(***************************************************************************)
(* A model of the random-vector shooter of umap-apps                       *)
(* (src/median_calculation/run_random_vector.cpp) and of the cube it walks *)
(* (src/median_calculation/cube.hpp), and of the page benchmark            *)
(* (pfbenchmark/nvmebenchmark.cpp).                                        *)
(*                                                                         *)
(* Groups of operations are modelled, each with its own specification     *)
(* over the same variables:                                                *)
(*   SpecVectorInfo  vector_info() run, one loop iteration per step, on    *)
(*                   every bounded sequence of walker steps;               *)
(*   SpecCube        cube's constructor and per-frame accessors;           *)
(*   SpecRndCoord    cube's constructor and get_rnd_coord;                 *)
(*   SpecBench       nvmebenchmark-write followed by nvmebenchmark-read;   *)
(*   Spec, SpecConfig  main(): map_fits, the three metadata loaders, the   *)
(*                   cube, shoot_vector's OpenMP team and write_tocsv.     *)
(*                                                                         *)
(* Numbers.  A C++ double is modelled as an exact rational [n, d] (d > 0,  *)
(* lowest terms); rounding error is not modelled.  The value returned as   *)
(* SNR is the only one that can be NaN or infinite; it is kept as a record *)
(* [kind, n, d] whose rational is the signed SQUARE of the SNR, so that no *)
(* square root has to be taken: SNR = sign * sqrt(n/d).                    *)
(***************************************************************************)
EXTENDS Integers, Sequences, FiniteSets, TLC

VARIABLES
  \* ---- vector_info, one call
  vi_pc,        \* "call" | "loop" | "returned"
  vi_seq,       \* the walker's steps between iterator_begin and iterator_end
  vi_pos,       \* number of steps the for loop has consumed
  vi_acc,       \* the locals total_signal, total_B, total_R, total_D, total_time, frame_num
  vi_out,       \* the returned tuple
  vi_div,       \* whether line 197 (the SNR division) was evaluated
  \* ---- cube, constructor and accessors
  cube,         \* the cube object: sizes and the metadata lists
  cube_pc,      \* "new" | "built" | "fault"
  cube_call,    \* the last accessor call and its outcome
  \* ---- main and shoot_vector
  env,          \* environment variables, options and files: fixed per run
  pc,           \* main's position
  lists,        \* the lists the loaders returned (arguments of cube's constructor)
  num_random_vector,
  result,       \* shoot_vector's result vector
  total_execution_time,
  pool,         \* iterations of the omp for loop not yet handed to a thread
  wpc,          \* per thread of the team: "begin" | "for" | "load" | "store" | "barrier"
  rnd_engine,   \* per thread: [seed, draws]
  slope_distribution, \* per thread: the object named slope_distribution in the loop's scope
  local,        \* per thread: i, the elapsed time of its draw, the loaded total
  ghost,        \* history: per index, the writes of result[i], the writer, the sampler
  csv,          \* rows written to vector_output.csv (the header line excluded)
  \* ---- nvmebenchmark
  nvme_pc,      \* position of the benchmark process
  argv0,        \* the name the benchmark was started under
  options,      \* numthreads and numpages
  pagesize,
  tmppagebuf,   \* per index: the first word of the temporary page buffer
  nvme_file,    \* options.filename, per page: the first word of the page
  nvme_pool,    \* iterations of the parallel for loop not yet handed to a thread
  nvme_thr      \* per thread: its position in the loop body and its i

viVars   == <<vi_pc, vi_seq, vi_pos, vi_acc, vi_out, vi_div>>
cubeVars == <<cube, cube_pc, cube_call>>
mainVars == <<env, pc, lists, num_random_vector, result, total_execution_time,
              pool, wpc, rnd_engine, slope_distribution, local, ghost, csv>>
benchVars == <<nvme_pc, argv0, options, pagesize, tmppagebuf, nvme_file, nvme_pool, nvme_thr>>
vars     == <<viVars, cubeVars, mainVars, benchVars>>

-----------------------------------------------------------------------------
(* Bounds *)

MaxSteps   == 3   \* longest walker sequence given to vector_info on its own
MaxVectors == 2   \* largest NUM_VECTORS
MaxThreads == 2   \* largest options.numthreads
MaxListLen == 2   \* longest metadata list given to cube's constructor on its own
MaxPages   == 2   \* largest options.numpages of the page benchmark

-----------------------------------------------------------------------------
(* Exact rationals standing for doubles *)

Abs(a) == IF a < 0 THEN 0 - a ELSE a

RECURSIVE GCD(_, _)
GCD(a, b) == IF b = 0 THEN a ELSE GCD(b, a % b)

\* n/d in lowest terms with a positive denominator (d # 0)
Rat(n, d) ==
  LET g == GCD(Abs(n), Abs(d))
      s == IF d < 0 THEN 0 - 1 ELSE 1
  IN  [n |-> (s * n) \div g, d |-> (s * d) \div g]

RInt(a)    == [n |-> a, d |-> 1]
RAdd(p, q) == Rat(p.n * q.d + q.n * p.d, p.d * q.d)
RMul(p, q) == Rat(p.n * q.n, p.d * q.d)

RECURSIVE SeqSum(_)
SeqSum(s) == IF s = <<>> THEN 0 ELSE Head(s) + SeqSum(Tail(s))

-----------------------------------------------------------------------------
(* vector_info: run_random_vector.cpp lines 157-200 *)

dark_noise    == [n |-> 417, d |-> 1000]   \* 0.417 electrons per pixel per second
readout_noise == 7                         \* electrons

\* What iterator.snr_info() yields for one step: <pixel value, #pixels, exposure>.
\* A step whose value is NaN carries no data.
NoData        == [nan |-> TRUE,  value |-> 0, num_pixels |-> 0, exp_time |-> 1]
Data(v, p, e) == [nan |-> FALSE, value |-> v, num_pixels |-> p, exp_time |-> e]

is_nan(step) == step.nan

\* lines 169-175
vi_locals == [total_signal |-> 0, total_B |-> RInt(0), total_R |-> RInt(0),
              total_D |-> RInt(0), total_time |-> 0, frame_num |-> 0]

\* lines 182-193: the loop body for a step that passed the is_nan test
vi_accumulate(acc, step) ==
  LET B == Rat(step.value, 3)
  IN  [total_signal |-> acc.total_signal + step.value,
       frame_num    |-> acc.frame_num + 1,
       total_B      |-> RAdd(acc.total_B, RMul(B, RInt(step.num_pixels))),
       total_R      |-> RAdd(acc.total_R,
                             Rat(step.num_pixels * readout_noise * readout_noise,
                                 step.exp_time)),
       total_D      |-> RAdd(acc.total_D, RMul(dark_noise, RInt(step.num_pixels))),
       total_time   |-> acc.total_time + step.exp_time]

\* A loop body that has lost its "if (is_nan(value)) continue": the step is counted.
vi_body_counting_nan(acc, step) ==
  IF is_nan(step) THEN [acc EXCEPT !.frame_num = @ + 1]
  ELSE vi_accumulate(acc, step)

\* lines 178-194: one iteration of the for loop
vi_body(acc, step) ==
  IF is_nan(step) THEN acc ELSE vi_accumulate(acc, step)

\* line 197, in IEEE arithmetic:
\*   total_signal*sqrt(total_time)/sqrt(total_signal + total_B + total_D + total_R)
\* sqrt of a negative is NaN, 0/0 is NaN, x/0 is +-inf.
SnrZero == [kind |-> "num", n |-> 0, d |-> 1]
SnrNaN  == [kind |-> "nan", n |-> 0, d |-> 1]
SnrInf(s) == [kind |-> IF s < 0 THEN "-inf" ELSE "inf", n |-> 0, d |-> 1]

vi_snr(acc) ==
  LET S   == acc.total_signal
      T   == acc.total_time
      den == RAdd(RAdd(RInt(S), acc.total_B), RAdd(acc.total_D, acc.total_R))
      sgn == IF S < 0 THEN 0 - 1 ELSE 1
  IN  IF T < 0 \/ den.n < 0 THEN SnrNaN
      ELSE IF den.n = 0 THEN (IF S * T = 0 THEN SnrNaN ELSE SnrInf(S))
      ELSE IF S * T = 0 THEN SnrZero
      ELSE LET q == Rat(sgn * S * S * T * den.d, den.n)
           IN  [kind |-> "num", n |-> q.n, d |-> q.d]

\* line 163
vi_zero == [SNR |-> SnrZero, total_signal |-> 0, frame_num |-> 0]

\* lines 197-199
vi_result(acc) ==
  [SNR |-> vi_snr(acc), total_signal |-> acc.total_signal, frame_num |-> acc.frame_num]

RECURSIVE vi_loop(_, _)
vi_loop(acc, steps) ==
  IF steps = <<>> THEN acc ELSE vi_loop(vi_body(acc, Head(steps)), Tail(steps))

\* the whole function, as shoot_vector calls it
vector_info(steps) ==
  IF steps = <<>> THEN vi_zero ELSE vi_result(vi_loop(vi_locals, steps))

\* ---- the same function, one step at a time

ViValues    == {0, 3, 10}
ViPixels    == {1, 2}
ViExposures == {5, 40}
ViSteps     == {NoData} \cup
               {Data(v, p, e) : v \in ViValues, p \in ViPixels, e \in ViExposures}

RECURSIVE SeqsUpTo(_, _)
SeqsUpTo(S, n) ==
  IF n = 0 THEN {<<>>}
  ELSE LET shorter == SeqsUpTo(S, n - 1)
       IN  shorter \cup {Append(s, x) : s \in {t \in shorter : Len(t) = n - 1}, x \in S}

NoOut == [SNR |-> SnrZero, total_signal |-> 0, frame_num |-> 0 - 1]

\* lines 162-163: begin == end
vi_empty ==
  /\ vi_pc = "call"
  /\ vi_seq = <<>>
  /\ vi_out' = vi_zero
  /\ vi_pc' = "returned"
  /\ UNCHANGED <<vi_seq, vi_pos, vi_acc, vi_div, cubeVars, mainVars, benchVars>>

\* lines 165-175
vi_enter ==
  /\ vi_pc = "call"
  /\ vi_seq # <<>>
  /\ vi_acc' = vi_locals
  /\ vi_pos' = 0
  /\ vi_pc' = "loop"
  /\ UNCHANGED <<vi_seq, vi_out, vi_div, cubeVars, mainVars, benchVars>>

\* lines 177-195
vi_iterate ==
  /\ vi_pc = "loop"
  /\ vi_pos < Len(vi_seq)
  /\ vi_acc' = vi_body(vi_acc, vi_seq[vi_pos + 1])
  /\ vi_pos' = vi_pos + 1
  /\ UNCHANGED <<vi_pc, vi_seq, vi_out, vi_div, cubeVars, mainVars, benchVars>>

\* lines 197-199
vi_return ==
  /\ vi_pc = "loop"
  /\ vi_pos = Len(vi_seq)
  /\ vi_out' = vi_result(vi_acc)
  /\ vi_div' = TRUE
  /\ vi_pc' = "returned"
  /\ UNCHANGED <<vi_seq, vi_pos, vi_acc, cubeVars, mainVars, benchVars>>

ViIdle ==
  /\ vi_pc = "idle" /\ vi_seq = <<>> /\ vi_pos = 0
  /\ vi_acc = vi_locals /\ vi_out = NoOut /\ vi_div = FALSE

ViInit ==
  /\ vi_pc = "call"
  /\ vi_seq \in SeqsUpTo(ViSteps, MaxSteps)
  /\ vi_pos = 0
  /\ vi_acc = vi_locals
  /\ vi_out = NoOut
  /\ vi_div = FALSE

ViNext == vi_empty \/ vi_enter \/ vi_iterate \/ vi_return

-----------------------------------------------------------------------------
(* cube: cube.hpp *)

\* The build: with NDEBUG every assert() is compiled out.
\* A std::vector read past its end is undefined behaviour: the read yields some
\* value, or the process dies.
Garbage == {0 - 1, 0 - 2}

\* lines 44-67.  `given` holds the metadata lists handed over, by member name;
\* each is checked against size_k.
cube_ctor_asserts(size_k, given) ==
  \A f \in DOMAIN given : size_k <= Len(given[f])

cube_ctor(size_x, size_y, size_k, image_data, given) ==
  [m_size_x |-> size_x, m_size_y |-> size_y, m_size_k |-> size_k,
   m_image_data |-> image_data, m_lists |-> given]

NoCube == cube_ctor(0, 0, 0, <<>>, [m_timestamp_list |-> <<>>])

\* An accessor assert that is off by one: k == size() passes.
accessor_assert_off_by_one(c, member, k) == k <= Len(c.m_lists[member])

\* lines 110, 115, 120, 130: assert(k < m_..._list.size())
accessor_assert(c, member, k) == k < Len(c.m_lists[member])

\* lines 109-132: timestamp, exposuretime, psf and noise are the same four lines
\* over their own list.  The outcomes a call can have:
\*   "value"  element k of the list is returned
\*   "assert" the assertion fails and the process aborts
\*   "ub"     (NDEBUG only) the list is read past its end; some value comes back
\*   "crash"  (NDEBUG only) the list is read past its end; the process dies
accessor_outcomes(c, member, k, ndebug) ==
  IF ~ndebug /\ ~accessor_assert(c, member, k)
    THEN {[fn |-> member, k |-> k, outcome |-> "assert", value |-> 0]}
  ELSE IF k < Len(c.m_lists[member])
    THEN {[fn |-> member, k |-> k, outcome |-> "value", value |-> c.m_lists[member][k + 1]]}
  ELSE {[fn |-> member, k |-> k, outcome |-> "ub", value |-> g] : g \in Garbage}
       \cup {[fn |-> member, k |-> k, outcome |-> "crash", value |-> 0]}

timestamp(c, k, ndebug)    == accessor_outcomes(c, "m_timestamp_list", k, ndebug)
exposuretime(c, k, ndebug) == accessor_outcomes(c, "m_exposuretime_list", k, ndebug)
psf(c, k, ndebug)          == accessor_outcomes(c, "m_psf_list", k, ndebug)
noise(c, k, ndebug)        == accessor_outcomes(c, "m_noise_list", k, ndebug)

NoCall == [fn |-> "none", k |-> 0, outcome |-> "none", value |-> 0]

\* ---- the constructor and the accessors on their own

\* A list of length n whose element k is base + k: every element names its
\* list and its place.
Ramp(base, n) == [i \in 1..n |-> base + i - 1]

CubeLens == 0..MaxListLen
CubeKs   == 0..(MaxListLen + 1)

\* the arguments of the constructor call and the build, before the call
CubeInit ==
  /\ cube_pc = "new"
  /\ cube_call = NoCall
  /\ \E size_k \in CubeLens, lt \in CubeLens, le \in CubeLens, lp \in CubeLens,
        lr \in CubeLens, ln \in CubeLens :
       cube = cube_ctor(2, 1, size_k, <<>>,
                        [m_timestamp_list    |-> Ramp(100, lt),
                         m_exposuretime_list |-> Ramp(200, le),
                         m_psf_list          |-> Ramp(300, lp),
                         m_ra_dec_list       |-> Ramp(400, lr),
                         m_noise_list        |-> Ramp(500, ln)])

CubeIdle == cube_pc = "idle" /\ cube_call = NoCall /\ cube = NoCube

\* lines 62-66
cube_construct ==
  /\ cube_pc = "new"
  /\ cube_pc' = IF ~env.ndebug /\ ~cube_ctor_asserts(cube.m_size_k, cube.m_lists)
                THEN "fault" ELSE "built"
  /\ UNCHANGED <<cube, cube_call, viVars, mainVars, benchVars>>

accessor_call(outcomes) ==
  /\ cube_pc = "built"
  /\ \E o \in outcomes :
       /\ cube_call' = o
       /\ cube_pc' = IF o.outcome \in {"assert", "crash"} THEN "fault" ELSE "built"
  /\ UNCHANGED <<cube, viVars, mainVars, benchVars>>

call_timestamp    == \E k \in CubeKs : accessor_call(timestamp(cube, k, env.ndebug))
call_exposuretime == \E k \in CubeKs : accessor_call(exposuretime(cube, k, env.ndebug))
call_psf          == \E k \in CubeKs : accessor_call(psf(cube, k, env.ndebug))
call_noise        == \E k \in CubeKs : accessor_call(noise(cube, k, env.ndebug))

CubeNext ==
  cube_construct \/ call_timestamp \/ call_exposuretime \/ call_psf \/ call_noise

\* ---- get_rnd_coord

RSub(p, q) == RAdd(p, RMul(RInt(0 - 1), q))

\* std::round: to the nearest whole number, halves away from zero
round(r) ==
  LET a == (2 * Abs(r.n) + r.d) \div (2 * r.d)
  IN  IF r.n < 0 THEN 0 - a ELSE a

\* A std::size_t is written hi * 2^64 + lo, with hi = 0 for every value a
\* coordinate can take and hi = 1, lo < 0 for the values just below 2^64.
\* lines 104-105, "std::size_t x = std::round(...)": a double that is a whole
\* number >= 0 converts to itself.  For a negative one the conversion is
\* undefined: the builds in use give the value wrapped modulo 2^64
\* (cvttsd2si) or 0 (fcvtzu).
size_t_of_double(v) ==
  IF v >= 0 THEN {[hi |-> 0, lo |-> v]}
  ELSE {[hi |-> 1, lo |-> v], [hi |-> 0, lo |-> 0]}

\* lines 96-98
cube_size(c) == c.m_size_x * c.m_size_y * c.m_size_k

\* u_cube.get_rnd_coord(index): the store coordinate (x_i, y_i, k) of a flat
\* index, x running fastest and k slowest
store_coord(c, index) ==
  <<index % c.m_size_x, (index \div c.m_size_x) % c.m_size_y,
    index \div (c.m_size_x * c.m_size_y)>>

\* lines 100-107.  The two time stamps are unsigned long; in the runs below the
\* lists ascend, so their difference does not wrap.
get_rnd_coord(c, index, x_slope, y_slope, ndebug) ==
  LET intercept == store_coord(c, index)
      k == intercept[3]
      call(tk, t0, x, y) ==
        [fn |-> "get_rnd_coord", index |-> index, x_slope |-> x_slope,
         y_slope |-> y_slope, intercept |-> intercept,
         time_offset |-> tk.value - t0.value,
         outcome |-> IF {tk.outcome, t0.outcome} \cap {"assert", "crash"} # {}
                     THEN "crash" ELSE "value",
         x |-> x, y |-> y, k |-> 0]
  IN  UNION { UNION { LET time_offset == RInt(tk.value - t0.value)
                          xd == round(RSub(RInt(intercept[1]), RMul(x_slope, time_offset)))
                          yd == round(RSub(RInt(intercept[2]), RMul(y_slope, time_offset)))
                      IN  {call(tk, t0, x, y) :
                             x \in size_t_of_double(xd), y \in size_t_of_double(yd)}
                      : t0 \in timestamp(c, 0, ndebug) }
              : tk \in timestamp(c, k, ndebug) }

\* the slopes and the time stamp lists of the calls
RndSlopes     == {RInt(0), RInt(1), RInt(0 - 1), Rat(1, 2)}
RndTimestamps ==
  {[i \in 1..n |-> base + step * (i - 1)] : n \in 1..MaxListLen, base \in {0, 3}, step \in {1, 2}}

RndCoordInit ==
  /\ cube_pc = "new"
  /\ cube_call = NoCall
  /\ \E ts \in RndTimestamps :
       cube = cube_ctor(2, 2, Len(ts), <<>>, [m_timestamp_list |-> ts])

call_get_rnd_coord ==
  /\ cube_pc = "built"
  /\ \E index \in 0..(cube_size(cube) - 1), x_slope \in RndSlopes, y_slope \in RndSlopes :
       \E o \in get_rnd_coord(cube, index, x_slope, y_slope, env.ndebug) :
         /\ cube_call' = o
         /\ cube_pc' = IF o.outcome = "crash" THEN "fault" ELSE "built"
  /\ UNCHANGED <<cube, viVars, mainVars, benchVars>>

RndCoordNext == cube_construct \/ call_get_rnd_coord

-----------------------------------------------------------------------------
(* The environment of a run of main *)

\* A file named by an environment variable: whether the variable is set,
\* whether the file can be opened, and its whitespace-separated tokens.
\* A token is a number or something operator>> cannot read as a double.
Num(v)  == [ok |-> TRUE, val |-> v]
Bad     == [ok |-> FALSE, val |-> 0]
Unset   == [set |-> FALSE, open |-> FALSE, content |-> <<>>]
Unopenable  == [set |-> TRUE, open |-> FALSE, content |-> <<>>]
FileOf(toks) == [set |-> TRUE, open |-> TRUE, content |-> toks]

\* What PerFits_alloc_cube gives map_fits: the cube's sizes and pixels.
\* A pixel is a float, possibly NaN.
Pix(v)   == [nan |-> FALSE, val |-> v]
NaNPix   == [nan |-> TRUE, val |-> 0]
FitsDims == <<2, 1, 2>>
Coords   == (0..(FitsDims[1] - 1)) \X (0..(FitsDims[2] - 1)) \X (0..(FitsDims[3] - 1))
\* the pixel store of the runs: one NaN pixel, and values that tell the
\* columns apart
AnImage  == [c \in Coords |-> IF c[1] = 0 /\ c[3] = 1 THEN NaNPix ELSE Pix(3 + 7 * c[1])]
Fits(status, img) ==
  [status |-> status, byte_per_element |-> IF status = "badsize" THEN 8 ELSE 4,
   size_x |-> FitsDims[1], size_y |-> FitsDims[2], size_k |-> FitsDims[3],
   image |-> img]

Tokens       == {Num(5), Num(7), Bad}
AllFiles     == {Unset, Unopenable}
                \cup {FileOf(t) : t \in SeqsUpTo(Tokens, FitsDims[3] + 1)}
MatchingFiles == {Unset, FileOf(<<Num(5), Num(7)>>)}

-----------------------------------------------------------------------------
(* The metadata loaders: run_random_vector.cpp lines 74-150 *)

\* for (double x; ifs >> x;) list.emplace_back(x): the numbers up to the first
\* token that is not one, or to the end of the file
RECURSIVE stream_extract(_)
stream_extract(toks) ==
  IF toks = <<>> \/ ~Head(toks).ok THEN <<>>
  ELSE <<Head(toks).val>> \o stream_extract(Tail(toks))

Aborted    == [abort |-> TRUE, list |-> <<>>]
Returns(l) == [abort |-> FALSE, list |-> l]

\* a loader whose size check lets a longer file through, cut to size_k values
read_timestamp_truncating(file, size_k) ==
  IF file.set
  THEN IF ~file.open THEN Aborted
       ELSE LET l == stream_extract(file.content)
            IN  IF Len(l) < size_k THEN Aborted ELSE Returns(SubSeq(l, 1, size_k))
  ELSE Returns([i \in 1..size_k |-> i - 1])

\* lines 74-98
read_timestamp(file, size_k) ==
  IF file.set
  THEN IF ~file.open THEN Aborted
       ELSE LET l == stream_extract(file.content)
            IN  IF Len(l) # size_k THEN Aborted ELSE Returns(l)
  ELSE Returns([i \in 1..size_k |-> i - 1])

\* lines 100-124
read_exposuretime(file, size_k) ==
  IF file.set
  THEN IF ~file.open THEN Aborted
       ELSE LET l == stream_extract(file.content)
            IN  IF Len(l) # size_k THEN Aborted ELSE Returns(l)
  ELSE Returns([i \in 1..size_k |-> 40])

\* lines 126-150
read_psf(file, size_k) ==
  IF file.set
  THEN IF ~file.open THEN Aborted
       ELSE LET l == stream_extract(file.content)
            IN  IF Len(l) # size_k THEN Aborted ELSE Returns(l)
  ELSE Returns([i \in 1..size_k |-> 1])

\* lines 65-72
default_num_random_vector == 100000
get_num_vectors(e) ==
  IF e.NUM_VECTORS.set THEN e.NUM_VECTORS.val ELSE default_num_random_vector

-----------------------------------------------------------------------------
(* The walk of one vector through the cube *)

\* vector_xy::position: round(intercept + slope * time_offset); slopes,
\* intercepts and time stamps are whole numbers here, so nothing is rounded
position(v, time_offset) ==
  <<v.x_intercept + v.x_slope * time_offset, v.y_intercept + v.y_slope * time_offset>>

\* cube.hpp lines 80-82, with the pixel store's index_in_cube
out_of_range(c, x, y, k) ==
  ~(0 <= x /\ x < c.m_size_x /\ 0 <= y /\ y < c.m_size_y /\ 0 <= k /\ k < c.m_size_k)

\* what the iterator's snr_info() gives at frame k
walker_step(c, v, k) ==
  LET ts  == c.m_lists.m_timestamp_list
      xy  == position(v, ts[k + 1] - ts[1])
  IN  IF out_of_range(c, xy[1], xy[2], k) THEN NoData
      ELSE LET p == c.m_image_data[<<xy[1], xy[2], k>>]
           IN  IF p.nan THEN NoData
               ELSE Data(p.val, 1, c.m_lists.m_exposuretime_list[k + 1])

\* the steps between begin(cube, vector, 0.0) and end(cube, vector)
walk(c, v) == [k \in 1..c.m_size_k |-> walker_step(c, v, k - 1)]

-----------------------------------------------------------------------------
(* shoot_vector: run_random_vector.cpp lines 203-257 *)

Threads == 0..(env.numthreads - 1)
Team    == DOMAIN wpc             \* the threads of the parallel region, once forked

base_seed == 123

\* line 217, the seed of a build without OpenMP, used for every thread
seed_without_thread_num(w) == base_seed

\* line 215: std::mt19937 rnd_engine(123 + omp_get_thread_num())
seed_of(w) == base_seed + w

\* What a call of a slope distribution can return.  beta_distribution(3, 2) and
\* custom_distribution are not part of the modelled sources: a sampler is its
\* kind, its table of slope pairs and the number of calls made on it.
BetaSlopes   == {<<0, 0>>, <<1, 0>>}
CustomSlopes == {<<2, 0>>}
Sampler(kind) ==
  [kind |-> kind, draws |-> 0,
   table |-> IF kind = "custom" THEN CustomSlopes
             ELSE IF kind = "beta" THEN BetaSlopes ELSE {}]

\* lines 225-227.  "custom_distribution slope_distribution(slope_filename);" is
\* the whole body of the if statement: it declares a second object in the if's
\* own scope, which is gone at the end of the statement.  The object named
\* slope_distribution at line 236 is the beta_distribution of line 225.
slope_distribution_in_scope(file) == Sampler("beta")

\* What utility::elapsed_time_sec(start) reports for the draw of index i, in
\* ticks: the clock is an input of the run, and every draw takes its own time.
elapsed_time_sec(i) == i + 1

\* A work-sharing loop that hands an iteration out without retiring it.
omp_for_take_again(iterations, i) == iterations

\* #pragma omp for: an iteration handed to a thread is handed to no other
omp_for_take(iterations, i) == iterations \ {i}

\* line 206: result(num_random_vector), value-initialised tuples
NoVector == [x_slope |-> 0, x_intercept |-> 0, y_slope |-> 0, y_intercept |-> 0]
NoResult == [vec |-> NoVector, SNR |-> SnrZero, SUM |-> 0, frames |-> 0]
NoGhost  == [writes |-> 0, by |-> 0 - 1, sampler |-> "none", elapsed |-> 0]
NoLocal  == [i |-> 0 - 1, elapsed |-> 0, loaded |-> 0, file_loads |-> 0]

\* A vector_info whose frame counter is shared by the team and not reset
\* between draws: the count of a draw carries the draws made before it.
shot_with_shared_counter(c, v) ==
  LET v_info == vector_info(walk(c, v))
  IN  [vec |-> v, SNR |-> v_info.SNR, SUM |-> v_info.total_signal,
       frames |-> v_info.frame_num + (num_random_vector - Cardinality(pool))]

\* lines 243-251: the tuple stored for current_vector
shot(c, v) ==
  LET v_info == vector_info(walk(c, v))
  IN  [vec |-> v, SNR |-> v_info.SNR, SUM |-> v_info.total_signal,
       frames |-> v_info.frame_num]

\* lines 204-213: the result vector, the timing sum, and the team is forked
shoot_enter ==
  /\ pc = "shoot"
  /\ result' = [i \in 1..num_random_vector |-> NoResult]
  /\ ghost' = [i \in 1..num_random_vector |-> NoGhost]
  /\ total_execution_time' = 0
  /\ pool' = 0..(num_random_vector - 1)
  /\ wpc' = [w \in Threads |-> "begin"]
  /\ rnd_engine' = [w \in Threads |-> [seed |-> 0, draws |-> 0]]
  /\ slope_distribution' = [w \in Threads |-> Sampler("none")]
  /\ local' = [w \in Threads |-> NoLocal]
  /\ pc' = "parallel"
  /\ UNCHANGED <<env, lists, num_random_vector, csv, cube, cube_pc, cube_call, viVars, benchVars>>

\* lines 214-227, the thread's own declarations: the engine and the two
\* intercept distributions; getenv, the beta distribution, and with a file
\* named the custom distribution built from it.  A file that cannot be read
\* ends the process (custom_distribution's constructor, taken from the
\* specification).
thr_begin(w) ==
  /\ pc = "parallel" /\ wpc[w] = "begin"
  /\ IF env.SLOPE_PDF_FILE.set /\ ~env.SLOPE_PDF_FILE.open
     THEN /\ pc' = "aborted"
          /\ rnd_engine' = [rnd_engine EXCEPT ![w] = [seed |-> seed_of(w), draws |-> 0]]
          /\ UNCHANGED <<wpc, slope_distribution, local>>
     ELSE /\ rnd_engine' = [rnd_engine EXCEPT ![w] = [seed |-> seed_of(w), draws |-> 0]]
          /\ slope_distribution' =
               [slope_distribution EXCEPT ![w] = slope_distribution_in_scope(env.SLOPE_PDF_FILE)]
          /\ local' = [local EXCEPT ![w].file_loads =
                          IF env.SLOPE_PDF_FILE.set THEN @ + 1 ELSE @]
          /\ wpc' = [wpc EXCEPT ![w] = "for"]
          /\ pc' = pc
  /\ UNCHANGED <<env, lists, num_random_vector, result, total_execution_time,
                 pool, ghost, csv, cube, cube_pc, cube_call, viVars, benchVars>>

\* lines 234-251 and the call of elapsed_time_sec(start) of line 252: the
\* thread is handed iteration i, draws the slopes and the intercepts, walks the
\* cube and stores result[i]
thr_iteration(w) ==
  /\ pc = "parallel" /\ wpc[w] = "for"
  /\ \E i \in pool, slopes \in slope_distribution[w].table,
        x \in 0..(cube.m_size_x - 1), y \in 0..(cube.m_size_y - 1) :
       LET t == elapsed_time_sec(i)
           current_vector == [x_slope |-> slopes[1], x_intercept |-> x,
                              y_slope |-> slopes[2], y_intercept |-> y]
       IN  /\ pool' = omp_for_take(pool, i)
           /\ slope_distribution' = [slope_distribution EXCEPT ![w].draws = @ + 1]
           /\ rnd_engine' = [rnd_engine EXCEPT ![w].draws = @ + 2]
           /\ result' = [result EXCEPT ![i + 1] = shot(cube, current_vector)]
           /\ ghost' = [ghost EXCEPT ![i + 1] =
                          [writes |-> @.writes + 1, by |-> w,
                           sampler |-> slope_distribution[w].kind, elapsed |-> t]]
           /\ local' = [local EXCEPT ![w].i = i, ![w].elapsed = t]
  /\ wpc' = [wpc EXCEPT ![w] = "load"]
  /\ UNCHANGED <<env, pc, lists, num_random_vector, total_execution_time, csv,
                 cube, cube_pc, cube_call, viVars, benchVars>>

\* line 252, total_execution_time += ...: the shared double is read ...
thr_load_total(w) ==
  /\ pc = "parallel" /\ wpc[w] = "load"
  /\ local' = [local EXCEPT ![w].loaded = total_execution_time]
  /\ wpc' = [wpc EXCEPT ![w] = "store"]
  /\ UNCHANGED <<env, pc, lists, num_random_vector, result, total_execution_time,
                 pool, rnd_engine, slope_distribution, ghost, csv,
                 cube, cube_pc, cube_call, viVars, benchVars>>

\* ... and the sum is written back; nothing orders the two against the other
\* threads (no atomic, no critical, no reduction clause).  The iteration is
\* over: i and the temporaries are dead.
thr_store_total(w) ==
  /\ pc = "parallel" /\ wpc[w] = "store"
  /\ total_execution_time' = local[w].loaded + local[w].elapsed
  /\ wpc' = [wpc EXCEPT ![w] = "for"]
  /\ local' = [local EXCEPT ![w].i = 0 - 1, ![w].elapsed = 0, ![w].loaded = 0]
  /\ UNCHANGED <<env, pc, lists, num_random_vector, result,
                 pool, rnd_engine, slope_distribution, ghost, csv,
                 cube, cube_pc, cube_call, viVars, benchVars>>

\* line 253: no iteration is left for the thread; it waits at the loop's barrier
thr_for_end(w) ==
  /\ pc = "parallel" /\ wpc[w] = "for"
  /\ pool = {}
  /\ wpc' = [wpc EXCEPT ![w] = "barrier"]
  /\ UNCHANGED <<env, pc, lists, num_random_vector, result, total_execution_time,
                 pool, rnd_engine, slope_distribution, local, ghost, csv,
                 cube, cube_pc, cube_call, viVars, benchVars>>

\* lines 254-256: the team joins and the pair is returned
shoot_return ==
  /\ pc = "parallel"
  /\ \A w \in Team : wpc[w] = "barrier"
  /\ pc' = "write"
  /\ UNCHANGED <<env, lists, num_random_vector, result, total_execution_time,
                 pool, wpc, rnd_engine, slope_distribution, local, ghost, csv,
                 cube, cube_pc, cube_call, viVars, benchVars>>

-----------------------------------------------------------------------------
(* write_tocsv: run_random_vector.cpp lines 299-320 *)

\* a row whose ID counts from 1
csv_row_from_one(id, row) ==
  [ID |-> id + 1, X_INTERCEPT |-> row.vec.x_intercept, Y_INTERCEPT |-> row.vec.y_intercept,
   X_SLOPE |-> row.vec.x_slope, Y_SLOPE |-> row.vec.y_slope,
   SNR |-> row.SNR, SUM |-> row.SUM, NUMBER_OF_FRAMES_HIT |-> row.frames]

\* lines 309-317: the fields of one line, in the header's order
csv_row(id, row) ==
  [ID |-> id, X_INTERCEPT |-> row.vec.x_intercept, Y_INTERCEPT |-> row.vec.y_intercept,
   X_SLOPE |-> row.vec.x_slope, Y_SLOPE |-> row.vec.y_slope,
   SNR |-> row.SNR, SUM |-> row.SUM, NUMBER_OF_FRAMES_HIT |-> row.frames]

\* lines 307-319: one turn of the loop; id is the number of rows written so far
write_row ==
  /\ pc = "write"
  /\ Len(csv) < Len(result)
  /\ csv' = Append(csv, csv_row(Len(csv), result[Len(csv) + 1]))
  /\ UNCHANGED <<env, pc, lists, num_random_vector, result, total_execution_time,
                 pool, wpc, rnd_engine, slope_distribution, local, ghost,
                 cube, cube_pc, cube_call, viVars, benchVars>>

\* line 320 and main's lines 347-349
write_end ==
  /\ pc = "write"
  /\ Len(csv) = Len(result)
  /\ pc' = "done"
  /\ UNCHANGED <<env, lists, num_random_vector, result, total_execution_time,
                 pool, wpc, rnd_engine, slope_distribution, local, ghost, csv,
                 cube, cube_pc, cube_call, viVars, benchVars>>

-----------------------------------------------------------------------------
(* main: run_random_vector.cpp lines 322-350 *)

NotRead == [done |-> FALSE, list |-> <<>>]
Read(l) == [done |-> TRUE, list |-> l]
NoLists == [m_timestamp_list |-> NotRead, m_exposuretime_list |-> NotRead,
            m_psf_list |-> NotRead]

\* lines 44-63 and 332
main_map_fits ==
  /\ pc = "map_fits"
  /\ pc' = IF env.fits.status = "null" \/ env.fits.byte_per_element # 4
           THEN "aborted" ELSE "args"
  /\ UNCHANGED <<env, lists, num_random_vector, result, total_execution_time,
                 pool, wpc, rnd_engine, slope_distribution, local, ghost, csv,
                 cubeVars, viVars, benchVars>>

\* One argument of line 333's constructor call is evaluated: the loader
\* returns its list or ends the process.  The three are evaluated in no fixed
\* order.
load_argument(member, r) ==
  /\ pc = "args"
  /\ ~lists[member].done
  /\ IF r.abort
     THEN pc' = "aborted" /\ lists' = lists
     ELSE pc' = pc /\ lists' = [lists EXCEPT ![member] = Read(r.list)]
  /\ UNCHANGED <<env, num_random_vector, result, total_execution_time,
                 pool, wpc, rnd_engine, slope_distribution, local, ghost, csv,
                 cubeVars, viVars, benchVars>>

main_read_timestamp ==
  load_argument("m_timestamp_list", read_timestamp(env.TIMESTAMP_FILE, env.fits.size_k))
main_read_exposuretime ==
  load_argument("m_exposuretime_list",
                read_exposuretime(env.EXPOSURETIME_FILE, env.fits.size_k))
main_read_psf ==
  load_argument("m_psf_list", read_psf(env.PSF_FILE, env.fits.size_k))

\* line 333: the cube is constructed from the three lists
main_cube ==
  /\ pc = "args"
  /\ \A m \in DOMAIN lists : lists[m].done
  /\ LET given == [m \in DOMAIN lists |-> lists[m].list]
     IN  IF ~env.ndebug /\ ~cube_ctor_asserts(env.fits.size_k, given)
         THEN pc' = "aborted" /\ UNCHANGED <<cube, cube_pc>>
         ELSE /\ cube' = cube_ctor(env.fits.size_x, env.fits.size_y, env.fits.size_k,
                                   env.fits.image, given)
              /\ cube_pc' = "built"
              /\ pc' = "num"
  /\ UNCHANGED <<env, lists, num_random_vector, result, total_execution_time,
                 pool, wpc, rnd_engine, slope_distribution, local, ghost, csv,
                 cube_call, viVars, benchVars>>

\* line 335
main_get_num_vectors ==
  /\ pc = "num"
  /\ num_random_vector' = get_num_vectors(env)
  /\ pc' = "shoot"
  /\ UNCHANGED <<env, lists, result, total_execution_time,
                 pool, wpc, rnd_engine, slope_distribution, local, ghost, csv,
                 cubeVars, viVars, benchVars>>

-----------------------------------------------------------------------------
(* nvmebenchmark: pfbenchmark/nvmebenchmark.cpp *)

\* the benchmark is not run
BenchIdle ==
  /\ nvme_pc = "idle" /\ argv0 = "" /\ options = [numthreads |-> 0, numpages |-> 0]
  /\ pagesize = 0 /\ tmppagebuf = <<>> /\ nvme_file = <<>>
  /\ nvme_pool = {} /\ nvme_thr = <<>>

\* posix_memalign hands out memory that holds anything; only the first
\* word of a buffer or of a page is followed
Uninit    == 0 - 1
PageSizes == {512, 4096}

\* lines 44 and 57: tmppagebuf[omp_get_thread_num()].  One buffer for the
\* whole team instead:
tmppagebuf_shared(w) == 0

\* lines 44 and 57: the buffer of the thread
tmppagebuf_of(w) == w

\* lines 45 and 62: i * pagesize/sizeof(uint64_t)
page_tag(i) == (i * pagesize) \div 8

NvmeTeam == DOMAIN nvme_thr
NoPage   == [pc |-> "for", i |-> 0 - 1]

\* the benchmark is started as nvmebenchmark-write
BenchInit ==
  /\ nvme_pc = "main" /\ argv0 = "nvmebenchmark-write"
  /\ options \in [numthreads : 1..MaxThreads, numpages : 1..MaxPages,
                  umt_pagesize : PageSizes]
  /\ pagesize = 0 /\ tmppagebuf = <<>> /\ nvme_file = <<>>
  /\ nvme_pool = {} /\ nvme_thr = <<>>

\* lines 134-159: the page size, one buffer per thread, and the mode
nvme_main ==
  /\ nvme_pc = "main"
  /\ pagesize' = options.umt_pagesize
  /\ \/ /\ tmppagebuf' = [b \in 1..options.numthreads |-> Uninit]
        /\ nvme_pc' = IF argv0 = "nvmebenchmark-write" THEN "write_pages"
                      ELSE IF argv0 = "nvmebenchmark-read" THEN "read_pages"
                      ELSE "done"
     \/ \* posix_memalign fails: exit(1)
        /\ nvme_pc' = "exit"
        /\ UNCHANGED tmppagebuf
  /\ UNCHANGED <<argv0, options, nvme_file, nvme_pool, nvme_thr, viVars, cubeVars, mainVars>>

\* the team of a "#pragma omp parallel for" over `pages` iterations
nvme_fork(pages) ==
  /\ nvme_pool' = 0..(pages - 1)
  /\ nvme_thr' = [w \in 0..(options.numthreads - 1) |-> NoPage]

\* lines 95-117 and 120: the file is made anew with numpages zero pages
write_pages_open ==
  /\ nvme_pc = "write_pages"
  /\ \/ /\ nvme_file' = [p \in 1..options.numpages |-> 0]
        /\ nvme_fork(options.numpages)
        /\ nvme_pc' = "do_write_pages"
     \/ \* open or posix_fallocate fails: exit(1)
        /\ nvme_pc' = "exit"
        /\ UNCHANGED <<nvme_file, nvme_pool, nvme_thr>>
  /\ UNCHANGED <<argv0, options, pagesize, tmppagebuf, viVars, cubeVars, mainVars>>

\* lines 43-44 and 56-57: the thread is handed iteration i
nvme_take(w, loop, first) ==
  /\ nvme_pc = loop /\ nvme_thr[w].pc = "for"
  /\ \E i \in nvme_pool :
       /\ nvme_pool' = omp_for_take(nvme_pool, i)
       /\ nvme_thr' = [nvme_thr EXCEPT ![w] = [pc |-> first, i |-> i]]
  /\ UNCHANGED <<nvme_pc, argv0, options, pagesize, tmppagebuf, nvme_file,
                 viVars, cubeVars, mainVars>>

wr_take(w) == nvme_take(w, "do_write_pages", "store")

\* line 45: *ptr = i * pagesize/sizeof(uint64_t)
wr_store(w) ==
  /\ nvme_pc = "do_write_pages" /\ nvme_thr[w].pc = "store"
  /\ tmppagebuf' = [tmppagebuf EXCEPT ![tmppagebuf_of(w) + 1] = page_tag(nvme_thr[w].i)]
  /\ nvme_thr' = [nvme_thr EXCEPT ![w].pc = "pwrite"]
  /\ UNCHANGED <<nvme_pc, argv0, options, pagesize, nvme_file, nvme_pool,
                 viVars, cubeVars, mainVars>>

\* lines 46-49: pwrite(fd, ptr, pagesize, i*pagesize)
wr_pwrite(w) ==
  /\ nvme_pc = "do_write_pages" /\ nvme_thr[w].pc = "pwrite"
  /\ \/ /\ nvme_file' = [nvme_file EXCEPT ![nvme_thr[w].i + 1] =
                                         tmppagebuf[tmppagebuf_of(w) + 1]]
        /\ nvme_thr' = [nvme_thr EXCEPT ![w] = NoPage]
        /\ UNCHANGED nvme_pc
     \/ \* pwrite fails: exit(1)
        /\ nvme_pc' = "exit"
        /\ UNCHANGED <<nvme_file, nvme_thr>>
  /\ UNCHANGED <<argv0, options, pagesize, tmppagebuf, nvme_pool,
                 viVars, cubeVars, mainVars>>

\* lines 50 and 66: no iteration is left for the thread
nvme_for_end(w) ==
  /\ nvme_pc \in {"do_write_pages", "do_read_pages"} /\ nvme_thr[w].pc = "for"
  /\ nvme_pool = {}
  /\ nvme_thr' = [nvme_thr EXCEPT ![w].pc = "barrier"]
  /\ UNCHANGED <<nvme_pc, argv0, options, pagesize, tmppagebuf, nvme_file, nvme_pool,
                 viVars, cubeVars, mainVars>>

\* lines 51 and 121-131: the team joins, the file is closed, the process ends
write_pages_close ==
  /\ nvme_pc = "do_write_pages"
  /\ \A w \in NvmeTeam : nvme_thr[w].pc = "barrier"
  /\ nvme_pc' = "written"
  /\ nvme_thr' = <<>>
  /\ UNCHANGED <<argv0, options, pagesize, tmppagebuf, nvme_file, nvme_pool,
                 viVars, cubeVars, mainVars>>

\* the benchmark is started again, as nvmebenchmark-read, on the same file
\* and number of pages, with a team of any size
nvme_start_read ==
  /\ nvme_pc = "written"
  /\ argv0' = "nvmebenchmark-read"
  /\ \E n \in 1..MaxThreads : options' = [options EXCEPT !.numthreads = n]
  /\ nvme_pc' = "main"
  /\ pagesize' = 0
  /\ tmppagebuf' = <<>>
  /\ UNCHANGED <<nvme_file, nvme_pool, nvme_thr, viVars, cubeVars, mainVars>>

\* lines 71-79
read_pages_open ==
  /\ nvme_pc = "read_pages"
  /\ \/ /\ nvme_fork(options.numpages)
        /\ nvme_pc' = "do_read_pages"
     \/ \* open fails: exit(1)
        /\ nvme_pc' = "exit"
        /\ UNCHANGED <<nvme_pool, nvme_thr>>
  /\ UNCHANGED <<argv0, options, pagesize, tmppagebuf, nvme_file,
                 viVars, cubeVars, mainVars>>

rd_take(w) == nvme_take(w, "do_read_pages", "pread")

\* lines 58-61: pread(fd, ptr, pagesize, i*pagesize)
rd_pread(w) ==
  /\ nvme_pc = "do_read_pages" /\ nvme_thr[w].pc = "pread"
  /\ \/ /\ tmppagebuf' = [tmppagebuf EXCEPT ![tmppagebuf_of(w) + 1] =
                                           nvme_file[nvme_thr[w].i + 1]]
        /\ nvme_thr' = [nvme_thr EXCEPT ![w].pc = "check"]
        /\ UNCHANGED nvme_pc
     \/ \* pread fails: exit(1)
        /\ nvme_pc' = "exit"
        /\ UNCHANGED <<tmppagebuf, nvme_thr>>
  /\ UNCHANGED <<argv0, options, pagesize, nvme_file, nvme_pool,
                 viVars, cubeVars, mainVars>>

\* lines 62-65: the tag read back is compared; a mismatch is exit(1)
rd_check(w) ==
  /\ nvme_pc = "do_read_pages" /\ nvme_thr[w].pc = "check"
  /\ IF tmppagebuf[tmppagebuf_of(w) + 1] # page_tag(nvme_thr[w].i)
     THEN nvme_pc' = "mismatch" /\ UNCHANGED nvme_thr
     ELSE nvme_thr' = [nvme_thr EXCEPT ![w] = NoPage] /\ UNCHANGED nvme_pc
  /\ UNCHANGED <<argv0, options, pagesize, tmppagebuf, nvme_file, nvme_pool,
                 viVars, cubeVars, mainVars>>

\* lines 67 and 80-90
read_pages_close ==
  /\ nvme_pc = "do_read_pages"
  /\ \A w \in NvmeTeam : nvme_thr[w].pc = "barrier"
  /\ nvme_pc' = "done"
  /\ nvme_thr' = <<>>
  /\ UNCHANGED <<argv0, options, pagesize, tmppagebuf, nvme_file, nvme_pool,
                 viVars, cubeVars, mainVars>>

BenchNext ==
  \/ nvme_main
  \/ write_pages_open
  \/ \E w \in NvmeTeam : wr_take(w)
  \/ \E w \in NvmeTeam : wr_store(w)
  \/ \E w \in NvmeTeam : wr_pwrite(w)
  \/ \E w \in NvmeTeam : nvme_for_end(w)
  \/ write_pages_close
  \/ nvme_start_read
  \/ read_pages_open
  \/ \E w \in NvmeTeam : rd_take(w)
  \/ \E w \in NvmeTeam : rd_pread(w)
  \/ \E w \in NvmeTeam : rd_check(w)
  \/ read_pages_close

-----------------------------------------------------------------------------
(* Specifications *)

Env(ndebug, numthreads, n, ts, ex, ps, slope, fits) ==
  [ndebug |-> ndebug, numthreads |-> numthreads,
   NUM_VECTORS |-> [set |-> TRUE, val |-> n],
   TIMESTAMP_FILE |-> ts, EXPOSURETIME_FILE |-> ex, PSF_FILE |-> ps,
   SLOPE_PDF_FILE |-> slope, fits |-> fits]

MainStart(e) ==
  /\ env = e
  /\ pc = "map_fits"
  /\ lists = NoLists
  /\ num_random_vector = 0
  /\ result = <<>> /\ ghost = <<>> /\ csv = <<>>
  /\ total_execution_time = 0
  /\ pool = {}
  /\ wpc = <<>> /\ rnd_engine = <<>> /\ slope_distribution = <<>> /\ local = <<>>

\* main is not run: only the build matters
MainIdle(ndebug) ==
  /\ MainStart(Env(ndebug, 1, 0, Unset, Unset, Unset, Unset, Fits("ok", AnImage)))

CubeUnbuilt == cube = NoCube /\ cube_pc = "new" /\ cube_call = NoCall

\* Runs of main over every team size, vector count, slope file and outcome
\* of the pixel store's allocation, with no metadata file or with three that match the frame count.
Init ==
  /\ \E numthreads \in 1..MaxThreads, n \in 0..MaxVectors,
        meta \in MatchingFiles,
        slope \in {Unset, Unopenable, FileOf(<<>>)},
        fits \in {Fits("ok", AnImage), Fits("null", AnImage), Fits("badsize", AnImage)} :
       MainStart(Env(FALSE, numthreads, n, meta, meta, meta, slope, fits))
  /\ CubeUnbuilt
  /\ ViIdle
  /\ BenchIdle

\* Runs of main over every metadata file, with one thread and one vector.
InitConfig ==
  /\ \E ts \in AllFiles, ex \in AllFiles, ps \in AllFiles :
       MainStart(Env(FALSE, 1, 1, ts, ex, ps, Unset, Fits("ok", AnImage)))
  /\ CubeUnbuilt
  /\ ViIdle
  /\ BenchIdle

Next ==
  \/ main_map_fits
  \/ main_read_timestamp
  \/ main_read_exposuretime
  \/ main_read_psf
  \/ main_cube
  \/ main_get_num_vectors
  \/ shoot_enter
  \/ \E w \in Team : thr_begin(w)
  \/ \E w \in Team : thr_iteration(w)
  \/ \E w \in Team : thr_load_total(w)
  \/ \E w \in Team : thr_store_total(w)
  \/ \E w \in Team : thr_for_end(w)
  \/ shoot_return
  \/ write_row
  \/ write_end

Spec       == Init /\ [][Next]_vars
SpecConfig == InitConfig /\ [][Next]_vars

InitVectorInfo == ViInit /\ CubeIdle /\ MainIdle(FALSE) /\ BenchIdle
SpecVectorInfo == InitVectorInfo /\ [][ViNext]_vars

InitCube == CubeInit /\ ViIdle /\ BenchIdle /\ \E ndebug \in BOOLEAN : MainIdle(ndebug)
SpecCube == InitCube /\ [][CubeNext]_vars

InitRndCoord == RndCoordInit /\ ViIdle /\ BenchIdle /\ \E ndebug \in BOOLEAN : MainIdle(ndebug)
SpecRndCoord == InitRndCoord /\ [][RndCoordNext]_vars

InitBench == BenchInit /\ ViIdle /\ CubeIdle /\ MainIdle(FALSE)
SpecBench == InitBench /\ [][BenchNext]_vars

-----------------------------------------------------------------------------
(* Properties *)

Joined   == pc \in {"write", "done"}
Forked   == pc \in {"parallel", "write", "done"}
Indices  == 0..(num_random_vector - 1)
DrawsBy(w) == {i \in Indices : ghost[i + 1].writes > 0 /\ ghost[i + 1].by = w}

\* C1: in shoot_vector every draw index 0..N-1 is processed exactly once,
\* whatever the team size and whichever thread is handed which index: no
\* element of result is ever written twice, an index is either still to be
\* handed out or written once, and when the team has joined every result[i]
\* has been written exactly once.
C1_EveryIndexWrittenOnce ==
  Forked =>
    /\ \A i \in Indices :
         /\ ghost[i + 1].writes <= 1
         /\ (i \in pool) <=> (ghost[i + 1].writes = 0)
    /\ Joined => \A i \in Indices : ghost[i + 1].writes = 1

C1_Witness ==
  /\ pc = "done"
  /\ num_random_vector = MaxVectors
  /\ \E i \in Indices, j \in Indices : ghost[i + 1].by # ghost[j + 1].by

\* C2: the elapsed time shoot_vector returns is the sum of the per-draw
\* durations of all N draws, under every interleaving of the threads.
C2_ElapsedIsSumOfDraws ==
  Joined =>
    total_execution_time = SeqSum([i \in 1..num_random_vector |-> ghost[i].elapsed])

\* C3: vector_info returns exactly (0, 0, 0), without evaluating the SNR
\* division, whenever no step of the sequence carries data: for the empty
\* sequence and for a sequence all of whose steps are "no data".
C3_NoDataYieldsZero ==
  (vi_pc = "returned" /\ \A j \in 1..Len(vi_seq) : vi_seq[j].nan) =>
    (vi_out = vi_zero /\ ~vi_div)

\* C4: with SLOPE_PDF_FILE set every draw takes its slopes from the
\* file-backed (custom) distribution, and only without it from the beta
\* distribution.
C4_ConfiguredFileIsSampled ==
  Forked =>
    \A i \in Indices :
      ghost[i + 1].writes > 0 =>
        ghost[i + 1].sampler = IF env.SLOPE_PDF_FILE.set THEN "custom" ELSE "beta"

\* C5: with SLOPE_PDF_FILE set, no thread of the team exists (and so no draw
\* starts) before the slope file has been loaded successfully; a file that
\* cannot be read ends the process before the team is forked.
C5_SlopeFileLoadedBeforeTeam ==
  (env.SLOPE_PDF_FILE.set /\ Team # {}) =>
    (env.SLOPE_PDF_FILE.open /\ \E w \in Team : local[w].file_loads > 0)

\* ---- C6

MetaFile(m) ==
  IF m = "m_timestamp_list" THEN env.TIMESTAMP_FILE
  ELSE IF m = "m_exposuretime_list" THEN env.EXPOSURETIME_FILE
  ELSE env.PSF_FILE

\* the number of values at the head of the file
ValuesIn(f) ==
  Cardinality({n \in 1..Len(f.content) : \A j \in 1..n : f.content[j].ok})

Mismatched(f) == f.set /\ (~f.open \/ ValuesIn(f) # env.fits.size_k)

\* C6: a configured timestamp, exposure-time or PSF file that cannot be
\* opened, or that yields fewer or more than K values, never yields a list:
\* the process ends before the cube is built, before the team is forked and
\* before a row is written.  A loader that returns for a configured file
\* returns exactly its K values, in file order.
C6_LoadersAllOrNothing ==
  /\ \A m \in DOMAIN lists :
       (lists[m].done /\ MetaFile(m).set) =>
         /\ MetaFile(m).open
         /\ Len(lists[m].list) = env.fits.size_k
         /\ ValuesIn(MetaFile(m)) = env.fits.size_k
         /\ \A j \in 1..env.fits.size_k : lists[m].list[j] = MetaFile(m).content[j].val
  /\ (\E m \in DOMAIN lists : Mismatched(MetaFile(m))) =>
       /\ pc \in {"map_fits", "args", "aborted"}
       /\ cube_pc # "built"
       /\ Team = {}
       /\ csv = <<>>

C6_Witness ==
  /\ pc = "done"
  /\ csv # <<>>
  /\ env.TIMESTAMP_FILE.set
  /\ lists["m_timestamp_list"].list = <<7, 5>>
  /\ env.PSF_FILE.set /\ Len(env.PSF_FILE.content) > env.fits.size_k

\* C7: the rows of the catalog are numbered 0, 1, 2, ... in the order
\* written, row ID = i carries the trajectory and the statistics of result[i],
\* and a finished run has written exactly N rows, whatever the team size and
\* the hand-out of the draws.
C7_CatalogRows ==
  /\ \A j \in 1..Len(csv) :
       /\ csv[j].ID = j - 1
       /\ j <= Len(result)
       /\ csv[j].X_INTERCEPT = result[j].vec.x_intercept
       /\ csv[j].Y_INTERCEPT = result[j].vec.y_intercept
       /\ csv[j].X_SLOPE = result[j].vec.x_slope
       /\ csv[j].Y_SLOPE = result[j].vec.y_slope
       /\ csv[j].SNR = result[j].SNR
       /\ csv[j].SUM = result[j].SUM
       /\ csv[j].NUMBER_OF_FRAMES_HIT = result[j].frames
  /\ pc = "done" => Len(csv) = env.NUM_VECTORS.val

C7_Witness ==
  /\ pc = "done"
  /\ Len(csv) = MaxVectors
  /\ env.numthreads = MaxThreads
  /\ \E i \in Indices, j \in Indices :
       ghost[i + 1].by # ghost[j + 1].by /\ csv[i + 1].X_SLOPE # csv[j + 1].X_SLOPE

\* ---- C8

DataOnly(steps) == SelectSeq(steps, LAMBDA st : ~st.nan)

RECURSIVE RSum(_)
RSum(rs) == IF rs = <<>> THEN RInt(0) ELSE RAdd(Head(rs), RSum(Tail(rs)))

\* C8: vector_info skips a "no data" step entirely.  After any number of
\* loop iterations frame_num is the number of steps consumed that carry a
\* value, total_signal is the sum of exactly those values, and total_B,
\* total_R, total_D and the total exposure are sums over those steps alone;
\* the returned frames_hit and total_signal are those of the whole sequence.
C8_NoDataStepsSkipped ==
  /\ vi_pc \in {"loop", "returned"} =>
       LET d == DataOnly(SubSeq(vi_seq, 1, vi_pos))
           n == Len(d)
       IN  /\ vi_acc.frame_num = n
           /\ vi_acc.total_signal = SeqSum([j \in 1..n |-> d[j].value])
           /\ vi_acc.total_time = SeqSum([j \in 1..n |-> d[j].exp_time])
           /\ vi_acc.total_B = Rat(SeqSum([j \in 1..n |-> d[j].value * d[j].num_pixels]), 3)
           /\ vi_acc.total_D = Rat(417 * SeqSum([j \in 1..n |-> d[j].num_pixels]), 1000)
           /\ vi_acc.total_R = RSum([j \in 1..n |-> Rat(49 * d[j].num_pixels, d[j].exp_time)])
  /\ vi_pc = "returned" =>
       LET d == DataOnly(vi_seq)
       IN  /\ vi_out.frame_num = Len(d)
           /\ vi_out.total_signal = SeqSum([j \in 1..Len(d) |-> d[j].value])

C8_Witness ==
  /\ vi_pc = "returned"
  /\ Len(vi_seq) = MaxSteps
  /\ vi_seq[1].nan /\ ~vi_seq[2].nan /\ vi_seq[MaxSteps].nan
  /\ vi_out.frame_num = MaxSteps - 2
  /\ vi_out.total_signal = 10

\* ---- C9

Called == cube_call.fn # "none"

\* C9, as claimed: with assertions compiled in, a call with k >= size_k is an
\* assertion failure, also for a list longer than size_k, and a call with
\* k < size_k returns element k.
C9_AccessorRequiresFrameCount ==
  (~env.ndebug /\ Called) =>
    /\ cube_call.k >= cube.m_size_k => cube_call.outcome = "assert"
    /\ cube_call.k < cube.m_size_k =>
         /\ cube_call.outcome = "value"
         /\ cube_call.value = cube.m_lists[cube_call.fn][cube_call.k + 1]

\* C9, amended: with assertions compiled in, an accessor checks k against the
\* length of its own list.  A call with k >= that length is an assertion
\* failure; a call with k below it returns element k, also when k >= size_k;
\* a constructed cube has lists of at least size_k elements, so every
\* k < size_k returns element k.
C9_AccessorRequiresListLength ==
  (~env.ndebug /\ Called) =>
    LET l == cube.m_lists[cube_call.fn]
    IN  /\ \A m \in DOMAIN cube.m_lists : cube.m_size_k <= Len(cube.m_lists[m])
        /\ cube_call.k >= Len(l) => cube_call.outcome = "assert"
        /\ cube_call.k < Len(l) =>
             /\ cube_call.outcome = "value"
             /\ cube_call.value = l[cube_call.k + 1]
        /\ cube_call.k < cube.m_size_k => cube_call.outcome = "value"

C9_Witness ==
  /\ ~env.ndebug
  /\ cube_call.fn = "m_noise_list"
  /\ cube_call.k >= cube.m_size_k
  /\ cube_call.outcome = "value"
  /\ cube_call.value = 500 + cube_call.k

\* C10: every thread of the team has an engine of its own, seeded with
\* 123 + its thread number, so no two threads share a seed; and its own slope
\* distribution.  An engine has been advanced by exactly the two intercept
\* draws of each vector its own thread shot, and a distribution has been
\* called exactly once per vector its own thread shot: no draw touches the
\* sampling state of another thread.
C10_ThreadLocalSampling ==
  Forked =>
    \A w \in Team :
      /\ wpc[w] # "begin" =>
           /\ rnd_engine[w].seed = 123 + w
           /\ \A v \in Team \ {w} :
                wpc[v] # "begin" => rnd_engine[v].seed # rnd_engine[w].seed
      /\ rnd_engine[w].draws = 2 * Cardinality(DrawsBy(w))
      /\ slope_distribution[w].draws = Cardinality(DrawsBy(w))

C10_Witness ==
  /\ Forked
  /\ \E w \in Team, v \in Team :
       /\ w # v
       /\ rnd_engine[w].draws > 0 /\ rnd_engine[v].draws > 0
       /\ slope_distribution[w].draws > 0 /\ slope_distribution[v].draws > 0

Written == {i \in Indices : ghost[i + 1].writes > 0}
Statistics(r) == <<r.SNR, r.SUM, r.frames>>
StatisticsOf(c, v) ==
  LET v_info == vector_info(walk(c, v))
  IN  <<v_info.SNR, v_info.total_signal, v_info.frame_num>>

\* The cubes main builds in the runs, the trajectories a draw can have, and
\* for each cube and trajectory the statistics of the walk: a table fixed
\* before any execution.
RunCubes ==
  {cube_ctor(FitsDims[1], FitsDims[2], FitsDims[3], AnImage,
             [m_timestamp_list    |-> read_timestamp(f, FitsDims[3]).list,
              m_exposuretime_list |-> read_exposuretime(f, FitsDims[3]).list,
              m_psf_list          |-> read_psf(f, FitsDims[3]).list]) : f \in MatchingFiles}
RunVectors ==
  {[x_slope |-> s[1], x_intercept |-> x, y_slope |-> s[2], y_intercept |-> y] :
     s \in BetaSlopes \cup CustomSlopes,
     x \in 0..(FitsDims[1] - 1), y \in 0..(FitsDims[2] - 1)}
StatisticsTable == [c \in RunCubes, v \in RunVectors |-> StatisticsOf(c, v)]

PositionAt(intercept, slope, time_offset) ==
  round(RAdd(RInt(intercept), RMul(slope, RInt(time_offset))))

ValidCoordinate(u) == u.hi = 0 /\ u.lo >= 0

\* C12: a call of get_rnd_coord(index, x_slope, y_slope) that returns has
\* resolved the index to its store coordinate (x_i, y_i, k) and returns
\* (round(x_i - x_slope*dt), round(y_i - y_slope*dt), 0) with
\* dt = timestamp(k) - timestamp(0): the frame returned is 0, the x and y
\* returned are valid non-negative coordinates equal to the rounded
\* back-projection (nothing wrapped into a huge unsigned value), and the
\* trajectory with the same slopes and the returned x and y as intercepts is
\* at (x_i, y_i) in frame k.
C12_BackProjection ==
  (cube_call.fn = "get_rnd_coord" /\ cube_call.outcome = "value") =>
    LET o  == cube_call
        ts == cube.m_lists.m_timestamp_list
        k  == o.intercept[3]
        dt == ts[k + 1] - ts[1]
    IN  /\ o.intercept = store_coord(cube, o.index)
        /\ o.k = 0
        /\ ValidCoordinate(o.x) /\ ValidCoordinate(o.y)
        /\ o.x.lo = round(RSub(RInt(o.intercept[1]), RMul(o.x_slope, RInt(dt))))
        /\ o.y.lo = round(RSub(RInt(o.intercept[2]), RMul(o.y_slope, RInt(dt))))
        /\ PositionAt(o.x.lo, o.x_slope, dt) = o.intercept[1]
        /\ PositionAt(o.y.lo, o.y_slope, dt) = o.intercept[2]

\* the word i*pagesize/8, for the page size of the runs
TagOfPage(i) == (i * options.umt_pagesize) \div 8

WriteRunDone == nvme_pc = "written" \/ argv0 = "nvmebenchmark-read"

\* C13: in the page benchmark a thread stages a page only in the buffer of
\* its own thread number, so whatever the interleaving: the buffer a thread
\* is about to write holds the tag of its own page, and the one it is about
\* to check holds what it read from its own page; once do_write_pages(P) has
\* returned, the page at offset i*pagesize starts with the word i*pagesize/8
\* for every i in 0..P-1; and the do_read_pages(P) that follows on the same
\* file never leaves through the mismatch branch.
C13_PagesStagedInOwnBuffer ==
  /\ \A w \in NvmeTeam :
       /\ nvme_thr[w].pc = "pwrite" => tmppagebuf[w + 1] = TagOfPage(nvme_thr[w].i)
       /\ nvme_thr[w].pc = "check" => tmppagebuf[w + 1] = nvme_file[nvme_thr[w].i + 1]
  /\ WriteRunDone =>
       \A i \in 0..(options.numpages - 1) : nvme_file[i + 1] = TagOfPage(i)
  /\ nvme_pc # "mismatch"

C13_Witness ==
  /\ nvme_pc = "do_read_pages"
  /\ options.numpages = MaxPages
  /\ \E w \in NvmeTeam, v \in NvmeTeam :
       /\ w # v
       /\ nvme_thr[w].pc = "check" /\ nvme_thr[v].pc = "check"
       /\ tmppagebuf[w + 1] # tmppagebuf[v + 1]

====
